---- MODULE Spec2Model ----
(***************************************************************************)
(* Model of the onboarding chatbot (atmosuwiryo/onboarding-chatbot).       *)
(*                                                                         *)
(* Two entry points share one shape, a read-line / run-graph / print loop: *)
(*   entry = "tool"    src/src/onboardInstructor.ts  (tool-calling)        *)
(*   entry = "string"  src/src/onboarding-chatbot.ts (string parsing)      *)
(*                                                                         *)
(* Strings are sequences of tokens (a token is a character for the user's  *)
(* line, a word for a model reply).  JSON values carry their JSON type.    *)
(* The completion service is an opaque collaborator: each call either      *)
(* resolves with one reply drawn from a finite set or rejects.             *)
(***************************************************************************)
EXTENDS Naturals, Sequences, FiniteSets, TLC

VARIABLES
  entry,                \* which program runs: "tool" or "string"
  pc,                   \* main's position (see the actions)
  inLoop,               \* main has entered `while (continueConversation)`
  messages,             \* thread state channel `messages` (checkpointed)
  onboardingData,       \* thread state channel `onboardingData` (string entry)
  isCompleted,          \* module-level `let isCompleted` (tool entry)
  continueConversation, \* main's local `continueConversation`
  conversationHistory,  \* main's local `conversationHistory`
  userMessage,          \* main's local `userMessage`: the last line read
  rlOpen,               \* the readline interface `rl` is open
  sent,                 \* `modelMessages` of the latest model.invoke
  outstanding,          \* model.invoke calls not yet settled
  modelCalls,           \* model.invoke calls issued so far
  console,              \* lines written to the console, by kind
  probe,                \* a payload handed directly to the `complete` tool
  probeResult           \* what the tool did with it

vars == <<entry, pc, inLoop, messages, onboardingData, isCompleted,
          continueConversation, conversationHistory, userMessage, rlOpen,
          sent, outstanding, modelCalls, console, probe, probeResult>>

mainVars == <<entry, pc, inLoop, messages, onboardingData,
              continueConversation, conversationHistory, userMessage, rlOpen,
              sent, outstanding, modelCalls, console>>

----------------------------------------------------------------------------
(* Bounds *)

\* model invocations per session (the seed run counts)
MaxCalls == 3
\* entries in a payload's businessHours array
MaxHours == 2

----------------------------------------------------------------------------
(* JSON values and objects *)

StrV(s) == [t |-> "string", v |-> s]
NumV == [t |-> "number", v |-> <<"30">>]
BoolV == [t |-> "boolean", v |-> <<"true">>]
ObjV == [t |-> "object", v |-> <<>>]
ArrV == [t |-> "array", v |-> <<>>]
NullV == [t |-> "null", v |-> <<>>]

EmptyObject == [k \in {} |-> NullV]
Drop(obj, key) == [k \in (DOMAIN obj) \ {key} |-> obj[k]]
Put(obj, key, val) == [k \in (DOMAIN obj) \cup {key} |-> IF k = key THEN val ELSE obj[k]]

Last(s) == s[Len(s)]

----------------------------------------------------------------------------
(* onboardInstructorEssentialsSchema and its validation *)

TopProperties == {"businessName", "firstServices", "businessHours", "yourEmailAddress",
                  "doYouWantUsToTakePaymentsDirectlyFromYourCustomers"}
TopRequired == {"businessName", "firstServices", "businessHours", "yourEmailAddress",
                "doYouWantUsToTakePaymentsDirectlyFromYourCustomers"}
ServiceProperties == {"serviceName", "price", "priceCurrency", "durationInMinutes"}
ServiceRequired == {"serviceName", "price", "priceCurrency", "durationInMinutes"}
HoursProperties == {"startTime24hr", "endTime24hr", "dayOfWeek"}
HoursRequired == {"startTime24hr", "endTime24hr", "dayOfWeek"}
DayOfWeekEnum == {<<"Monday">>, <<"Tuesday">>, <<"Wednesday">>, <<"Thursday">>,
                  <<"Friday">>, <<"Saturday">>, <<"Sunday">>}

\* `type: T` of a property: checked only when the property is present
HasType(obj, key, type) == key \in DOMAIN obj => obj[key].t = type

\* `format: 'email'`: one "@" with something on either side
FormatEmail(s) ==
  /\ Len(s) >= 3
  /\ Cardinality({i \in DOMAIN s : s[i] = "@"}) = 1
  /\ s[1] # "@"
  /\ s[Len(s)] # "@"

NoAdditionalTop(obj) == DOMAIN obj \subseteq TopProperties
\* faulty variant: firstServices without `additionalProperties: false`
NoAdditionalServiceOmitted(obj) == TRUE
NoAdditionalService(obj) == DOMAIN obj \subseteq ServiceProperties
NoAdditionalHours(obj) == DOMAIN obj \subseteq HoursProperties

DayOfWeekOk(e) ==
  "dayOfWeek" \in DOMAIN e =>
     /\ e["dayOfWeek"].t = "string"
     /\ e["dayOfWeek"].v \in DayOfWeekEnum

ValidService(svc) ==
  /\ ServiceRequired \subseteq DOMAIN svc
  /\ NoAdditionalService(svc)
  /\ HasType(svc, "serviceName", "string")
  /\ HasType(svc, "price", "number")
  /\ HasType(svc, "priceCurrency", "string")
  /\ HasType(svc, "durationInMinutes", "number")

ValidHoursEntry(e) ==
  /\ HoursRequired \subseteq DOMAIN e
  /\ NoAdditionalHours(e)
  /\ HasType(e, "startTime24hr", "string")
  /\ HasType(e, "endTime24hr", "string")
  /\ DayOfWeekOk(e)

EmailOk(top) ==
  "yourEmailAddress" \in DOMAIN top =>
     /\ top["yourEmailAddress"].t = "string"
     /\ FormatEmail(top["yourEmailAddress"].v)

\* A payload p is [top, svc, hours]: the top-level object, the object under
\* firstServices and the array under businessHours (read only when the
\* top-level value has JSON type object, respectively array).
Validate(p) ==
  /\ TopRequired \subseteq DOMAIN p.top
  /\ NoAdditionalTop(p.top)
  /\ HasType(p.top, "businessName", "string")
  /\ "firstServices" \in DOMAIN p.top =>
        (p.top["firstServices"].t = "object" /\ ValidService(p.svc))
  /\ "businessHours" \in DOMAIN p.top =>
        (p.top["businessHours"].t = "array"
           /\ \A i \in DOMAIN p.hours : ValidHoursEntry(p.hours[i]))
  /\ EmailOk(p.top)
  /\ HasType(p.top, "doYouWantUsToTakePaymentsDirectlyFromYourCustomers", "boolean")

\* the `complete` tool: the schema guards the function body
onboardingCompleted(args) ==
  IF Validate(args)
    THEN [status |-> "success", output |-> <<args>>, completed |-> TRUE]
    ELSE [status |-> "error", output |-> <<>>, completed |-> FALSE]

----------------------------------------------------------------------------
(* Payloads the completion service may put in a `complete` call *)

BaseTop ==
  [k \in TopProperties |->
     CASE k = "businessName" -> StrV(<<"Acme Cuts">>)
       [] k = "firstServices" -> ObjV
       [] k = "businessHours" -> ArrV
       [] k = "yourEmailAddress" -> StrV(<<"a", "@", "b.com">>)
       [] OTHER -> BoolV]

BaseService ==
  [k \in ServiceProperties |->
     CASE k = "serviceName" -> StrV(<<"Haircut">>)
       [] k = "priceCurrency" -> StrV(<<"USD">>)
       [] OTHER -> NumV]

HoursFor(day) ==
  [k \in HoursProperties |->
     CASE k = "startTime24hr" -> StrV(<<"09:00">>)
       [] k = "endTime24hr" -> StrV(<<"17:00">>)
       [] OTHER -> StrV(day)]

\* a value of another JSON type than val's
Mistyped(val) == IF val.t = "string" THEN NumV ELSE StrV(<<"x">>)

TopVariants ==
  {BaseTop}
    \cup {Drop(BaseTop, k) : k \in TopProperties}
    \cup {Put(BaseTop, k, Mistyped(BaseTop[k])) : k \in TopProperties}
    \cup {Put(BaseTop, "notes", StrV(<<"x">>)),
          Put(BaseTop, "yourEmailAddress", StrV(<<"a.b.com">>))}

ServiceVariants ==
  {BaseService}
    \cup {Drop(BaseService, k) : k \in ServiceProperties}
    \cup {Put(BaseService, k, Mistyped(BaseService[k])) : k \in ServiceProperties}
    \cup {Put(BaseService, "discount", NumV)}

HoursEntryVariants ==
  {HoursFor(<<"Monday">>), HoursFor(<<"Sunday">>), HoursFor(<<"Funday">>),
   Drop(HoursFor(<<"Monday">>), "dayOfWeek"),
   Drop(HoursFor(<<"Monday">>), "startTime24hr"),
   Put(HoursFor(<<"Monday">>), "closed", BoolV),
   Put(HoursFor(<<"Monday">>), "dayOfWeek", NumV),
   Put(HoursFor(<<"Monday">>), "endTime24hr", NumV)}

HoursVariants == UNION {[1..n -> HoursEntryVariants] : n \in 0..MaxHours}

Payloads == [top : TopVariants, svc : ServiceVariants, hours : HoursVariants]

ValidPayload == [top |-> BaseTop, svc |-> BaseService, hours |-> <<HoursFor(<<"Monday">>)>>]
PartialPayload == [ValidPayload EXCEPT !.top = Drop(BaseTop, "yourEmailAddress")]
ExtraPayload == [ValidPayload EXCEPT !.svc = Put(BaseService, "discount", NumV)]
BadDayPayload == [ValidPayload EXCEPT !.hours = <<HoursFor(<<"Funday">>)>>]
MistypedPayload == [ValidPayload EXCEPT !.top = Put(BaseTop, "businessName", NumV)]

----------------------------------------------------------------------------
(* Messages *)

Msg(role, content, calls, out) ==
  [role |-> role, content |-> content, tool_calls |-> calls, output |-> out]
SystemMessage(content) == Msg("system", content, <<>>, <<>>)
HumanMessage(content) == Msg("human", content, <<>>, <<>>)
AIMessage(content, calls) == Msg("ai", content, calls, <<>>)
\* ToolNode wraps a tool's return value, or the error it threw (a payload the
\* schema rejects never reaches the tool's function; the run goes on to END)
ToolMessage(res) ==
  Msg("tool", IF res.status = "success" THEN <<"complete">> ELSE <<"Error">>, <<>>, res.output)

\* replies of the service in the tool-calling entry point
ToolReplies ==
  {[content |-> <<"What is your business name?">>, tool_calls |-> <<>>]}
    \cup {[content |-> <<"Saving.">>, tool_calls |-> <<p>>] :
            p \in {ValidPayload, PartialPayload, ExtraPayload, BadDayPayload, MistypedPayload}}
    \cup {[content |-> <<"Saving.">>, tool_calls |-> <<PartialPayload, ValidPayload>>]}

\* replies of the service in the string-parsing entry point (no tools bound)
ChatbotReplies ==
  {[content |-> c, tool_calls |-> <<>>] :
     c \in {<<"Hello!">>,
            <<"business name", ":", " ", "Acme", " ">>,
            <<"business name", ":", "Bolt", ":", "ok?">>,
            <<"business name", ":">>,
            <<"Business Name", ":", "Zed">>}}

----------------------------------------------------------------------------
(* The user's lines *)

ToLowerCaseChar(c) ==
  CASE c = "E" -> "e" [] c = "X" -> "x" [] c = "I" -> "i" [] c = "T" -> "t"
    [] c = "H" -> "h" [] OTHER -> c
\* faulty variant: the comparison forgets to fold case
toLowerCaseIdentity(s) == s
toLowerCase(s) == [i \in DOMAIN s |-> ToLowerCaseChar(s[i])]

ExitSentinel == <<"e", "x", "i", "t">>

Lines ==
  {<<"e", "x", "i", "t">>, <<"E", "X", "I", "T">>, <<"E", "x", "i", "t">>,
   <<"e", "x", "i", "t", " ">>, <<"H", "i">>}

----------------------------------------------------------------------------
(* Graph state reducers *)

messagesReducer(x, y) == x \o y


\* faulty variant: the update replaces the channel instead of merging into it
onboardingDataReducerReplace(prev, next) == next
onboardingDataReducer(prev, next) ==
  [k \in (DOMAIN prev) \cup (DOMAIN next) |-> IF k \in DOMAIN next THEN next[k] ELSE prev[k]]

----------------------------------------------------------------------------
(* onboardInstructor.ts: nodes and edges *)

END == "__end__"

shouldContinue(msgs) ==
  IF Len(Last(msgs).tool_calls) > 0 THEN "tools" ELSE END

systemMessageTool == SystemMessage(<<"You are an onboarding assistant", "schema">>)

\* faulty variant: `[systemMessage, ...messages.slice(-1)]`
callModelLastOnly(msgs) == <<systemMessageTool>> \o <<Last(msgs)>>
callModel(msgs) == <<systemMessageTool>> \o msgs

\* ToolNode: one ToolMessage per tool call of the last message, in order
toolNodeForGraph(msgs) ==
  [i \in DOMAIN Last(msgs).tool_calls |->
     ToolMessage(onboardingCompleted(Last(msgs).tool_calls[i]))]

----------------------------------------------------------------------------
(* onboarding-chatbot.ts: nodes and edges *)

Includes(s, tok) == \E i \in DOMAIN s : s[i] = tok

\* s.split(':')[1]: what lies between the first ':' and the next one
SplitColonSecond(s) ==
  LET colons == {i \in DOMAIN s : s[i] = ":"}
      first == CHOOSE i \in colons : \A j \in colons : i <= j
      later == {i \in colons : i > first}
      stop == IF later = {} THEN Len(s) + 1
              ELSE CHOOSE i \in later : \A j \in later : i <= j
  IN SubSeq(s, first + 1, stop - 1)

RECURSIVE TrimStart(_)
TrimStart(s) == IF s # <<>> /\ Head(s) = " " THEN TrimStart(Tail(s)) ELSE s
RECURSIVE TrimEnd(_)
TrimEnd(s) ==
  IF s # <<>> /\ Last(s) = " " THEN TrimEnd(SubSeq(s, 1, Len(s) - 1)) ELSE s
Trim(s) == TrimEnd(TrimStart(s))

parseResponseForData(content) ==
  IF Includes(content, "business name") /\ Includes(content, ":")
    THEN [k \in {"businessName"} |-> Trim(SplitColonSecond(content))]
    ELSE EmptyObject

\* JavaScript truthiness of a string-valued property
Truthy(od, key) == key \in DOMAIN od /\ od[key] # <<>>


\* faulty variant: the incomplete branch returns "agent"
shouldContinueChatbotLoops(od) ==
  IF /\ Truthy(od, "businessName")
     /\ Truthy(od, "firstServices")
     /\ Truthy(od, "businessHours")
     /\ "yourEmailAddress" \in DOMAIN od
     /\ "doYouWantUsToTakePaymentsDirectlyFromYourCustomers" \in DOMAIN od
    THEN "__end__"
    ELSE "agent"
shouldContinueChatbot(od) ==
  IF /\ Truthy(od, "businessName")
     /\ Truthy(od, "firstServices")
     /\ Truthy(od, "businessHours")
     /\ "yourEmailAddress" \in DOMAIN od
     /\ "doYouWantUsToTakePaymentsDirectlyFromYourCustomers" \in DOMAIN od
    THEN "__end__"
    ELSE "__end__"

\* JSON.stringify(onboardingData) inside the system message
Stringify(od) ==
  IF "businessName" \in DOMAIN od THEN <<"businessName", ":">> \o od["businessName"] ELSE <<"{}">>

systemMessageChatbot(od) ==
  SystemMessage(<<"You are an onboarding assistant", "Current progress:">> \o Stringify(od))

callModelChatbot(msgs, od) == <<systemMessageChatbot(od)>> \o msgs

----------------------------------------------------------------------------
(* main: the conversation loop of either entry point *)

SeedMessage == HumanMessage(<<"Start onboarding">>)

\* modelMessages handed to model.invoke by the entry point's callModel
ModelMessages(msgs, od) ==
  IF entry = "tool" THEN callModel(msgs) ELSE callModelChatbot(msgs, od)

\* the conditional edge leaving the agent node
Route(msgs, od) ==
  IF entry = "tool" THEN shouldContinue(msgs) ELSE shouldContinueChatbot(od)

Replies == IF entry = "tool" THEN ToolReplies ELSE ChatbotReplies

Init ==
  /\ entry \in {"tool", "string"}
  /\ pc = "main"
  /\ inLoop = FALSE
  /\ messages = <<>>
  /\ onboardingData = EmptyObject
  /\ isCompleted = FALSE
  /\ continueConversation = TRUE
  /\ conversationHistory = <<>>
  /\ userMessage = <<>>
  /\ rlOpen = FALSE
  /\ sent = <<>>
  /\ outstanding = 0
  /\ modelCalls = 0
  /\ console = <<>>
  /\ probe = ValidPayload
  /\ probeResult = "none"

\* main up to its first await: the tool entry runs the graph on the seed
\* message (up to model.invoke), the string entry goes to the first prompt
MainStart ==
  /\ pc = "main"
  /\ rlOpen' = TRUE
  /\ IF entry = "tool"
       THEN /\ messages' = messagesReducer(messages, <<SeedMessage>>)
            /\ sent' = ModelMessages(messages', onboardingData)
            /\ outstanding' = outstanding + 1
            /\ modelCalls' = modelCalls + 1
            /\ pc' = "agent"
            /\ inLoop' = FALSE
       ELSE /\ pc' = "prompt"
            /\ inLoop' = TRUE
            /\ UNCHANGED <<messages, sent, outstanding, modelCalls>>
  /\ UNCHANGED <<entry, onboardingData, isCompleted, continueConversation,
                 conversationHistory, userMessage, console, probe, probeResult>>


\* faulty variant: app.invoke is not awaited, the loop prompts while the call runs
AskQuestionNotAwaiting == pc \in {"prompt", "agent"}
\* main is suspended in `await askQuestion('You: ')`
AskQuestionReady == pc = "prompt"

\* askQuestion resolves with a line: the exit check, or the push and
\* app.invoke up to model.invoke
UserLine(line) ==
  /\ AskQuestionReady
  /\ continueConversation
  /\ userMessage' = line
  /\ IF toLowerCase(line) = ExitSentinel
       THEN /\ continueConversation' = FALSE
            /\ rlOpen' = FALSE
            /\ pc' = "done"
            /\ UNCHANGED <<conversationHistory, messages, onboardingData, sent,
                           outstanding, modelCalls>>
       ELSE /\ modelCalls < MaxCalls
            /\ conversationHistory' = Append(conversationHistory, HumanMessage(line))
            /\ messages' = messagesReducer(messages, <<HumanMessage(line)>>)
            /\ onboardingData' =
                 IF entry = "string"
                   THEN onboardingDataReducer(onboardingData, EmptyObject)
                   ELSE onboardingData
            /\ sent' = ModelMessages(messages', onboardingData')
            /\ outstanding' = outstanding + 1
            /\ modelCalls' = modelCalls + 1
            /\ pc' = "agent"
            /\ UNCHANGED <<continueConversation, rlOpen>>
  /\ UNCHANGED <<entry, inLoop, isCompleted, console, probe, probeResult>>

\* model.invoke resolves: callModel returns its update, the reducers apply
\* it, and the conditional edge routes
ModelReply(r) ==
  /\ pc = "agent"
  /\ outstanding > 0
  /\ LET msgs == messagesReducer(messages, <<AIMessage(r.content, r.tool_calls)>>)
         od == IF entry = "string"
                 THEN onboardingDataReducer(onboardingData, parseResponseForData(r.content))
                 ELSE onboardingData
         route == Route(msgs, od)
     IN /\ messages' = msgs
        /\ onboardingData' = od
        /\ IF route = "agent"
             THEN /\ sent' = ModelMessages(msgs, od)
                  /\ modelCalls' = modelCalls + 1
                  /\ UNCHANGED <<outstanding, pc>>
             ELSE /\ outstanding' = outstanding - 1
                  /\ pc' = IF route = "tools" THEN "tools" ELSE "return"
                  /\ UNCHANGED <<sent, modelCalls>>
  /\ UNCHANGED <<entry, inLoop, isCompleted, continueConversation,
                 conversationHistory, userMessage, rlOpen, console, probe, probeResult>>

\* the tools node, then its edge to END
ToolsNode ==
  /\ pc = "tools"
  /\ LET out == toolNodeForGraph(messages)
         calls == Last(messages).tool_calls
     IN /\ messages' = messagesReducer(messages, out)
        /\ isCompleted' =
             (isCompleted \/ \E i \in DOMAIN calls : onboardingCompleted(calls[i]).completed)
  /\ pc' = "return"
  /\ UNCHANGED <<entry, inLoop, onboardingData, continueConversation,
                 conversationHistory, userMessage, rlOpen, sent, outstanding,
                 modelCalls, console, probe, probeResult>>

\* app.invoke on the seed message has returned: print, enter the loop
AfterSeed ==
  /\ pc = "return"
  /\ ~inLoop
  /\ console' = Append(console, "Bot")
  /\ inLoop' = TRUE
  /\ pc' = "prompt"
  /\ UNCHANGED <<entry, messages, onboardingData, isCompleted, continueConversation,
                 conversationHistory, userMessage, rlOpen, sent, outstanding,
                 modelCalls, probe, probeResult>>

\* app.invoke inside the loop has returned: print, push, completion check
AfterInvoke ==
  /\ pc = "return"
  /\ inLoop
  /\ conversationHistory' =
       Append(conversationHistory, AIMessage(Last(messages).content, <<>>))
  /\ IF entry = "tool" /\ isCompleted
       THEN /\ continueConversation' = FALSE
            /\ console' = console \o <<"Bot", "Onboarding completed!">>
            /\ rlOpen' = FALSE
            /\ pc' = "done"
       ELSE /\ console' = Append(console, "Bot")
            /\ pc' = "prompt"
            /\ UNCHANGED <<continueConversation, rlOpen>>
  /\ UNCHANGED <<entry, inLoop, messages, onboardingData, isCompleted, userMessage,
                 sent, outstanding, modelCalls, probe, probeResult>>

\* model.invoke rejects: the rejection leaves callModel, app.invoke and main,
\* and main().catch logs it
ModelFail ==
  /\ pc = "agent"
  /\ outstanding > 0
  /\ outstanding' = outstanding - 1
  /\ console' = Append(console, "An error occurred:")
  /\ pc' = "failed"
  /\ UNCHANGED <<entry, inLoop, messages, onboardingData, isCompleted,
                 continueConversation, conversationHistory, userMessage, rlOpen,
                 sent, modelCalls, probe, probeResult>>

Next ==
  \/ MainStart
  \/ \E line \in Lines : UserLine(line)
  \/ \E r \in Replies : ModelReply(r)
  \/ ToolsNode
  \/ AfterSeed
  \/ AfterInvoke
  \/ ModelFail

Spec == Init /\ [][Next]_vars

----------------------------------------------------------------------------
(* The `complete` tool applied to one payload *)

InitSchema ==
  /\ entry = "tool"
  /\ pc = "tool"
  /\ inLoop = FALSE
  /\ messages = <<>>
  /\ onboardingData = EmptyObject
  /\ isCompleted = FALSE
  /\ continueConversation = TRUE
  /\ conversationHistory = <<>>
  /\ userMessage = <<>>
  /\ rlOpen = FALSE
  /\ sent = <<>>
  /\ outstanding = 0
  /\ modelCalls = 0
  /\ console = <<>>
  /\ probe \in Payloads
  /\ probeResult = "none"

InvokeComplete ==
  /\ pc = "tool"
  /\ probeResult = "none"
  /\ probeResult' = onboardingCompleted(probe).status
  /\ isCompleted' = (isCompleted \/ onboardingCompleted(probe).completed)
  /\ UNCHANGED <<mainVars, probe>>

NextSchema == InvokeComplete

SpecSchema == InitSchema /\ [][NextSchema]_vars

----------------------------------------------------------------------------
(* Vocabulary of the properties *)

IsPrefix(s, t) == Len(s) <= Len(t) /\ SubSeq(t, 1, Len(s)) = s

IsHuman(m) == m.role = "human"
Humans(s) == SelectSeq(s, IsHuman)

Count(s, x) == Cardinality({i \in DOMAIN s : s[i] = x})

SameLetter(a, b) ==
  \/ a = b
  \/ {a, b} \in {{"e", "E"}, {"x", "X"}, {"i", "I"}, {"t", "T"}}

\* the line is the exit sentinel up to letter case
IsExitLine(s) ==
  /\ Len(s) = Len(ExitSentinel)
  /\ \A i \in DOMAIN s : SameLetter(s[i], ExitSentinel[i])

\* the `complete` function has returned its input in some tool message
PayloadProduced == \E i \in DOMAIN messages : messages[i].output # <<>>

\* index of the newest user (or seed) message of the thread
LastHumanIndex ==
  CHOOSE i \in DOMAIN messages :
    /\ messages[i].role = "human"
    /\ \A j \in DOMAIN messages : messages[j].role = "human" => j <= i

\* the graph run that has just ended executed `complete` on a valid payload
RunCompleted ==
  \E i \in DOMAIN messages :
    /\ i > LastHumanIndex
    /\ messages[i].role = "tool"
    /\ messages[i].output # <<>>

\* Node keeps the process alive while the readline interface on stdin is open
ProcessExits == pc \in {"done", "failed"} /\ ~rlOpen

----------------------------------------------------------------------------
(* C1 *)

\* C1: in both entry points, when the line read is the exit sentinel in any
\* letter case and onboarding has not completed, the session ends in that
\* step: nothing is appended to the transcript or the history, no graph run
\* starts, no model call is issued then or at any later point.
C1_ExitEndsWithoutModel ==
  /\ [][(pc = "prompt" /\ ~isCompleted /\ pc' # pc /\ IsExitLine(userMessage'))
          => /\ pc' = "done"
             /\ ~continueConversation'
             /\ ~rlOpen'
             /\ outstanding' = 0
             /\ UNCHANGED <<messages, conversationHistory, sent, modelCalls,
                            onboardingData, console>>]_vars
  /\ [][pc = "done" => (pc' = "done" /\ UNCHANGED <<modelCalls, outstanding, messages>>)]_vars

C1_Witness ==
  /\ pc = "done"
  /\ userMessage = <<"E", "X", "I", "T">>
  /\ ~isCompleted
  /\ Len(conversationHistory) >= 2

----------------------------------------------------------------------------
(* C2 *)

\* C2: in the tool-calling entry point, once isCompleted is true no further
\* model invocation is issued, whichever graph run set it.
C2_NoModelCallOnceCompleted ==
  [][(entry = "tool" /\ isCompleted) => modelCalls' = modelCalls]_vars

----------------------------------------------------------------------------
(* C3 *)

----------------------------------------------------------------------------
(* C4 *)

\* C4: when the user types the exit sentinel at the first prompt, the loop
\* has terminated with isCompleted false and no payload produced, whatever
\* the service replied before that prompt.
C4_ExitAtFirstPrompt ==
  (pc = "done" /\ conversationHistory = <<>>) => (~isCompleted /\ ~PayloadProduced)

----------------------------------------------------------------------------
(* C5 *)

\* C5: in the tool-calling entry point isCompleted is true only if `complete`
\* ran on a payload that passed validation; a graph run of the loop whose
\* reply was free text or carried only invalid payloads does not set the
\* flag, is not followed by 'Onboarding completed!', and leaves the loop at
\* the next prompt.
C5_OnlyValidCompletes ==
  /\ [](isCompleted =>
          \E i \in DOMAIN messages :
            /\ messages[i].role = "tool"
            /\ messages[i].output # <<>>
            /\ Validate(messages[i].output[1]))
  /\ [][(entry = "tool" /\ pc = "tools" /\ pc' = "return" /\ ~RunCompleted')
          => isCompleted' = isCompleted]_vars
  /\ [][(entry = "tool" /\ pc = "return" /\ inLoop /\ pc' # pc /\ ~RunCompleted)
          => /\ pc' = "prompt"
             /\ console' = Append(console, "Bot")
             /\ continueConversation']_vars

----------------------------------------------------------------------------
(* C6 *)

\* what C6 names: the five top-level fields and no others, the four fields
\* of firstServices and no others, every businessHours entry with its three
\* fields and no others and a canonical day name
ClaimedShape(p) ==
  /\ DOMAIN p.top = TopProperties
  /\ p.top["firstServices"].t = "object"
  /\ DOMAIN p.svc = ServiceRequired
  /\ p.top["businessHours"].t = "array"
  /\ \A i \in DOMAIN p.hours :
       /\ DOMAIN p.hours[i] = HoursRequired
       /\ p.hours[i]["dayOfWeek"].v \in DayOfWeekEnum

\* the declared types of the leaves, and the email format
ClaimedTypes(p) ==
  /\ p.top["businessName"].t = "string"
  /\ p.top["yourEmailAddress"].t = "string"
  /\ FormatEmail(p.top["yourEmailAddress"].v)
  /\ p.top["doYouWantUsToTakePaymentsDirectlyFromYourCustomers"].t = "boolean"
  /\ p.svc["serviceName"].t = "string"
  /\ p.svc["priceCurrency"].t = "string"
  /\ p.svc["price"].t = "number"
  /\ p.svc["durationInMinutes"].t = "number"
  /\ \A i \in DOMAIN p.hours :
       /\ p.hours[i]["startTime24hr"].t = "string"
       /\ p.hours[i]["endTime24hr"].t = "string"
       /\ p.hours[i]["dayOfWeek"].t = "string"

\* C6 (as stated): the `complete` tool accepts a payload if and only if it
\* has the claimed shape.
C6_AcceptsIffShape ==
  probeResult # "none" => ((probeResult = "success") <=> ClaimedShape(probe))

\* C6 (amended): the `complete` tool accepts a payload if and only if it has
\* the claimed shape and every field has its declared JSON type, the email
\* address matching the email format; a payload with a missing or an extra
\* field or a dayOfWeek outside the seven names is rejected, and only an
\* accepted payload sets isCompleted.
C6_AcceptsIffShapeAndTypes ==
  probeResult # "none" =>
    /\ (probeResult = "success") <=> (ClaimedShape(probe) /\ ClaimedTypes(probe))
    /\ ~ClaimedShape(probe) => probeResult = "error"
    /\ isCompleted <=> (probeResult = "success")

C6_Witness ==
  /\ probeResult = "error"
  /\ DOMAIN probe.top = TopProperties
  /\ "discount" \in DOMAIN probe.svc
  /\ ServiceRequired \subseteq DOMAIN probe.svc
  /\ Len(probe.hours) = 2

----------------------------------------------------------------------------
(* C7 *)

\* C7: at most one model call is outstanding; while one is, the only step
\* is its settling (the reply appended to the transcript, or the failure):
\* no line is read, no history entry pushed, no other call issued; the loop
\* is at a prompt only with no call outstanding and every reply printed.
C7_OneOutstandingCall ==
  /\ [](/\ outstanding <= 1
        /\ outstanding = 1 <=> pc = "agent"
        /\ pc = "prompt" => (outstanding = 0 /\ Count(console, "Bot") = modelCalls))
  /\ [][outstanding >= 1 =>
          /\ outstanding' = 0
          /\ UNCHANGED <<userMessage, conversationHistory, modelCalls, sent>>
          /\ \/ messages' = messages
             \/ /\ Len(messages') = Len(messages) + 1
                /\ IsPrefix(messages, messages')
                /\ Last(messages').role = "ai"]_vars

C7_Witness ==
  /\ outstanding = 1
  /\ modelCalls >= 2
  /\ Count(console, "Bot") = modelCalls - 1

----------------------------------------------------------------------------
(* C8 *)

\* C8: once a model call has failed the error is logged once, no call is
\* outstanding, the flag is as it was, nothing further happens, and the
\* program terminates.
C8_FailureTerminates ==
  pc = "failed" =>
    /\ Count(console, "An error occurred:") = 1
    /\ outstanding = 0
    /\ ~(ENABLED Next)
    /\ ProcessExits

----------------------------------------------------------------------------
(* C9 *)

\* onboardingData values the edge may be asked about, complete ones included
DataSamples ==
  {EmptyObject,
   [k \in {"businessName"} |-> <<"Acme">>],
   [k \in TopProperties \ {"yourEmailAddress"} |-> <<"x">>],
   [k \in TopProperties |-> <<"x">>]}

\* C9: in the string-parsing entry point the edge after the model node ends
\* the run for complete and incomplete data alike; a non-exit line issues
\* one model call, whose settling issues no other and returns the loop to
\* the prompt; the loop is over only after an exit line (or a failed call).
C9_EdgeAlwaysEnds ==
  /\ [](entry = "string" =>
          /\ \A d \in DataSamples : shouldContinueChatbot(d) = "__end__"
          /\ pc # "tools"
          /\ ~isCompleted
          /\ pc = "done" => (IsExitLine(userMessage) /\ ~continueConversation)
          /\ pc = "prompt" => Len(conversationHistory) = 2 * modelCalls)
  /\ [][(entry = "string" /\ pc = "prompt" /\ pc' # pc /\ ~IsExitLine(userMessage'))
          => (pc' = "agent" /\ modelCalls' = modelCalls + 1)]_vars
  /\ [][(entry = "string" /\ pc = "agent")
          => (pc' \in {"agent", "return", "failed"} /\ modelCalls' = modelCalls)]_vars
  /\ [][(entry = "string" /\ pc = "return") => pc' \in {"return", "prompt"}]_vars

C9_Witness ==
  /\ entry = "string"
  /\ pc = "prompt"
  /\ modelCalls >= 2
  /\ Truthy(onboardingData, "businessName")

----------------------------------------------------------------------------
(* C10 *)

\* C10: in the string-parsing entry point a field of onboardingData, once
\* present, stays present; its value changes only in the step that takes a
\* model reply from which parseResponseForData extracts that field, and
\* then to the extracted value.
C10_DataOnlyGrows ==
  [][entry = "string" =>
       /\ DOMAIN onboardingData \subseteq DOMAIN onboardingData'
       /\ \A k \in DOMAIN onboardingData :
            onboardingData'[k] # onboardingData[k] =>
              /\ pc = "agent"
              /\ Len(messages') = Len(messages) + 1
              /\ k \in DOMAIN parseResponseForData(Last(messages').content)
              /\ onboardingData'[k] = parseResponseForData(Last(messages').content)[k]]_vars

C10_Witness ==
  /\ entry = "string"
  /\ pc = "prompt"
  /\ modelCalls >= 2
  /\ "businessName" \in DOMAIN onboardingData
  /\ onboardingData["businessName"] = <<"Acme">>
  /\ Last(messages).content = <<"Hello!">>

====
